---- MODULE Spec2Model ----
(***************************************************************************)
(* EmbeddingIndex of client-vector-search (src/src/index.ts): the          *)
(* in-memory record store, the bounded top-K search, the IndexedDB         *)
(* preload cache, and saving, reading and deleting the object stores.      *)
(*                                                                         *)
(* Conventions.  A JavaScript value that may be null is a sequence of      *)
(* length 0 (null) or 1 (the value).  Array positions are 1-based, and     *)
(* findVectorIndex returns 0 where the code returns -1.  An object is a    *)
(* function from its own property names to values; the embedding property  *)
(* is [isArray, items, ref] so that a non-array value can be told apart,   *)
(* and an array element is [t, v]: a number, NaN, or a numeric string.     *)
(*                                                                         *)
(* Identity.  The index stores and compares references.  An array or an    *)
(* object that the caller keeps a reference to has an identity ref > 0; a  *)
(* literal, which the caller keeps no reference to, has ref 0 and is the   *)
(* same as no value a later call hands over.  Arrays are never changed, so *)
(* two array values with the same ref > 0 are the same array.  Objects are *)
(* changed in place by update: held maps the identity of a caller's object *)
(* to its present properties, and refs gives the identity of the object in *)
(* each slot of this.objects.  The values of the properties other than     *)
(* embedding are primitives.                                               *)
(***************************************************************************)
EXTENDS Integers, Sequences, FiniteSets, Bags, TLC

VARIABLES
    objects,                    \* this.objects: the properties of the object in each slot
    refs,                       \* the identity of the object in each slot of this.objects
    held,                       \* the objects the caller keeps a reference to, by identity
    keys,                       \* this.keys (as a set of property names)
    indexedDBDataCache,         \* this.indexedDBDataCache: <<>> or <<records>>
    preloadedDBName,            \* this.preloadedDBName: <<>> or <<name>>
    preloadedObjectStoreName,   \* this.preloadedObjectStoreName
    calls,                      \* bag of async calls suspended on an IndexedDB request
    log,                        \* the last two cache events: <<previous, latest>>
    indexedDB,                  \* the records of each object store of each database
    last                        \* the most recent completed call and its outcome

vars == <<objects, refs, held, keys, indexedDBDataCache, preloadedDBName,
          preloadedObjectStoreName, calls, log, indexedDB, last>>

storeVars == <<objects, refs, held, keys>>
cacheVars == <<indexedDBDataCache, preloadedDBName, preloadedObjectStoreName>>

(***************************************************************************)
(* Bounds of the model.                                                    *)
(***************************************************************************)
MaxObjects == 3
MaxCalls == 2
MaxStored == 2

DEFAULT_TOP_K == 3

(***************************************************************************)
(* Values.                                                                 *)
(***************************************************************************)
Num(n) == [t |-> "number", v |-> n]
NaN == [t |-> "nan", v |-> 0]
Str(n) == [t |-> "string", v |-> n]

\* An array literal, an array the caller keeps a reference to, and a value
\* that is not an array.
Arr(items) == [isArray |-> TRUE, items |-> items, ref |-> 0]
HeldArr(ref, items) == [isArray |-> TRUE, items |-> items, ref |-> ref]
NotArray == [isArray |-> FALSE, items |-> <<>>, ref |-> 0]

\* a === b on the values of an embedding property: two arrays are equal when
\* they are one array, other values when they are the same primitive.
strictEquals(a, b) ==
    IF a.isArray \/ b.isArray
    THEN a.isArray /\ b.isArray /\ a.ref # 0 /\ a.ref = b.ref
    ELSE a = b

\* structuredClone of a sequence of records, as IndexedDB stores and
\* returns them: the arrays of a clone are nobody else's.
clone(records) ==
    [i \in 1..Len(records) |->
        [k \in DOMAIN records[i] |->
            IF k = "embedding" THEN [records[i][k] EXCEPT !.ref = 0]
            ELSE records[i][k]]]

null == <<>>
Some(x) == <<x>>

\* The global isNaN: it converts its argument to a number first, so the
\* numeric string "1" is not NaN.
isNaN(e) == e.t = "nan"

\* ToNumber, applied by the arithmetic of cosineSimilarity.
ToNumber(e) == e.v

EmptyFilter == [k \in {} |-> 0]

\* Mutant of passesFilter: the filter is not applied.
passesAnything(object, filter) == TRUE

\* Object.keys(filter).every((key) => object[key] === filter[key])
passesFilter(object, filter) ==
    \A key \in DOMAIN filter :
        /\ key \in DOMAIN object
        /\ IF key = "embedding"
           THEN strictEquals(object[key], filter[key])
           ELSE object[key] = filter[key]

RECURSIVE SumTo(_, _)
SumTo(f, n) == IF n = 0 THEN 0 ELSE f[n] + SumTo(f, n - 1)

\* dot(a,b) / (norm(a) * norm(b)); NaN when a norm is zero or an operand is.
\* The score keeps the dot product and the squared norms, so that two scores
\* are compared exactly.
cosineSimilarity(vecA, vecB) ==
    LET n == Len(vecA)
        dot == SumTo([i \in 1..n |-> ToNumber(vecA[i]) * ToNumber(vecB[i])], n)
        na == SumTo([i \in 1..n |-> ToNumber(vecA[i]) * ToNumber(vecA[i])], n)
        nb == SumTo([i \in 1..n |-> ToNumber(vecB[i]) * ToNumber(vecB[i])], n)
        bad == \E i \in 1..n : isNaN(vecA[i]) \/ isNaN(vecB[i])
    IN  [nan |-> bad \/ na = 0 \/ nb = 0,
         dot |-> IF bad THEN 0 ELSE dot,
         nn |-> IF bad THEN 0 ELSE na * nb]

\* x < y on numbers: false when either is NaN.  For comparable scores
\* dot/sqrt(nn) is compared by sign and by cross-multiplied squares.
Less(x, y) ==
    /\ ~x.nan
    /\ ~y.nan
    /\ IF x.dot < 0 /\ y.dot >= 0 THEN TRUE
       ELSE IF x.dot >= 0 /\ y.dot < 0 THEN FALSE
       ELSE IF x.dot >= 0
            THEN x.dot * x.dot * y.nn < y.dot * y.dot * x.nn
            ELSE x.dot * x.dot * y.nn > y.dot * y.dot * x.nn

\* x > y
Greater(x, y) == Less(y, x)

(***************************************************************************)
(* FastPriorityQueue: a binary heap kept in an array, ordered by the       *)
(* comparator (a, b) => a.similarity < b.similarity.                       *)
(***************************************************************************)
compare(a, b) == Less(a.similarity, b.similarity)

RECURSIVE percolateUp(_, _, _)
percolateUp(array, i, myval) ==
    IF i > 1 /\ compare(myval, array[i \div 2])
    THEN percolateUp([array EXCEPT ![i] = array[i \div 2]], i \div 2, myval)
    ELSE [array EXCEPT ![i] = myval]

queueAdd(array, myval) == percolateUp(Append(array, myval), Len(array) + 1, myval)

RECURSIVE percolateDown(_, _, _)
percolateDown(array, i, ai) ==
    LET size == Len(array)
        hsize == size \div 2
        l == 2 * i
        r == l + 1
        best == IF r <= size /\ compare(array[r], array[l]) THEN r ELSE l
    IN  IF i <= hsize /\ compare(array[best], ai)
        THEN percolateDown([array EXCEPT ![i] = array[best]], best, ai)
        ELSE [array EXCEPT ![i] = ai]

\* poll(): the array left after removing the root (the root is array[1]).
queuePoll(array) ==
    IF Len(array) > 1
    THEN percolateDown(SubSeq(array, 1, Len(array) - 1), 1, array[Len(array)])
    ELSE <<>>

queuePeek(array) == IF Len(array) = 0 THEN null ELSE Some(array[1])

Reverse(s) == [i \in 1..Len(s) |-> s[Len(s) + 1 - i]]

\* while (!queue.isEmpty()) results.push(queue.poll())
RECURSIVE drain(_)
drain(array) ==
    IF Len(array) = 0 THEN <<>> ELSE <<array[1]>> \o drain(queuePoll(array))

(***************************************************************************)
(* The record store.                                                       *)
(***************************************************************************)
\* Mutant of findVectorIndex: no record is ever found.
findNoIndex(objs, filter) == 0

\* this.objects.findIndex(...): the first matching position, 0 when none.
findVectorIndex(objs, filter) ==
    IF \E i \in 1..Len(objs) : passesFilter(objs[i], filter)
    THEN CHOOSE i \in 1..Len(objs) :
            /\ passesFilter(objs[i], filter)
            /\ \A j \in 1..(i - 1) : ~passesFilter(objs[j], filter)
    ELSE 0

\* !Array.isArray(obj.embedding) || obj.embedding.some(isNaN)
embeddingRejected(obj) ==
    \/ "embedding" \notin DOMAIN obj
    \/ ~obj.embedding.isArray
    \/ \E i \in 1..Len(obj.embedding.items) : isNaN(obj.embedding.items[i])

\* Mutant of validateAndAdd: an empty store takes the keys of the object.
validateAndAddKeysOfEmpty(objs, rs, ks, obj, ref) ==
    IF embeddingRejected(obj)
    THEN [err |-> TRUE, objects |-> objs, refs |-> rs, keys |-> ks]
    ELSE IF Len(objs) = 0
    THEN [err |-> FALSE, objects |-> Append(objs, obj),
          refs |-> Append(rs, ref), keys |-> DOMAIN obj]
    ELSE IF ~(\A key \in ks : key \in DOMAIN obj)
    THEN [err |-> TRUE, objects |-> objs, refs |-> rs, keys |-> ks]
    ELSE [err |-> FALSE, objects |-> Append(objs, obj),
          refs |-> Append(rs, ref), keys |-> ks]

\* validateAndAdd on the store (objs, rs, ks) of the object with identity
\* ref whose properties are obj: err when it throws, and the store it
\* leaves.  this.objects.push(obj) stores the caller's object itself.
validateAndAdd(objs, rs, ks, obj, ref) ==
    IF embeddingRejected(obj)
    THEN [err |-> TRUE, objects |-> objs, refs |-> rs, keys |-> ks]
    ELSE IF ks = {}
    THEN [err |-> FALSE, objects |-> Append(objs, obj),
          refs |-> Append(rs, ref), keys |-> DOMAIN obj]
    ELSE IF ~(\A key \in ks : key \in DOMAIN obj)
    THEN [err |-> TRUE, objects |-> objs, refs |-> rs, keys |-> ks]
    ELSE [err |-> FALSE, objects |-> Append(objs, obj),
          refs |-> Append(rs, ref), keys |-> ks]

\* initialObjects.forEach((obj) => this.validateAndAdd(obj)), from an empty
\* store; the first throw ends it.
RECURSIVE addAll(_, _, _, _, _, _)
addAll(objs, rs, ks, initialObjects, initialRefs, i) ==
    IF i > Len(initialObjects)
    THEN [err |-> FALSE, objects |-> objs, refs |-> rs, keys |-> ks]
    ELSE LET r == validateAndAdd(objs, rs, ks, initialObjects[i], initialRefs[i])
         IN  IF r.err THEN r
             ELSE addAll(r.objects, r.refs, r.keys,
                         initialObjects, initialRefs, i + 1)

\* The constructor fills the store twice, each time from an empty store, and
\* then takes the keys of the first object.
constructor(initialObjects, initialRefs) ==
    LET pass == addAll(<<>>, <<>>, {}, initialObjects, initialRefs, 1)
    IN  IF pass.err \/ Len(initialObjects) = 0
        THEN pass
        ELSE [pass EXCEPT !.keys = DOMAIN initialObjects[1]]

\* Mutant of assign: the source replaces the target.
assignReplace(target, source) == source

\* Object.assign(target, source)
assign(target, source) ==
    [k \in DOMAIN target \cup DOMAIN source |->
        IF k \in DOMAIN source THEN source[k] ELSE target[k]]

\* update(filter, vector) on the store (objs, rs, ks), where hp holds the
\* caller's objects and ref is the identity of vector.  A patch with an
\* embedding is itself pushed, and Object.assign changes the matched object
\* in place: every slot that holds this object shows the change, and so
\* does the caller who holds it.
update(objs, rs, ks, hp, filter, vector, ref) ==
    LET index == findVectorIndex(objs, filter)
        added == IF "embedding" \in DOMAIN vector
                 THEN validateAndAdd(objs, rs, ks, vector, ref)
                 ELSE [err |-> FALSE, objects |-> objs, refs |-> rs, keys |-> ks]
        target == rs[index]
        merged == assign(objs[index], vector)
    IN  IF index = 0 \/ added.err
        THEN [err |-> TRUE, objects |-> objs, refs |-> rs, keys |-> ks,
              held |-> hp]
        ELSE [err |-> FALSE,
              objects |-> [i \in 1..Len(added.objects) |->
                             IF i = index \/ (target # 0 /\ added.refs[i] = target)
                             THEN merged
                             ELSE added.objects[i]],
              refs |-> added.refs,
              keys |-> added.keys,
              held |-> IF target # 0 THEN [hp EXCEPT ![target] = merged] ELSE hp]

\* Mutant of splice: nothing is removed.
spliceNothing(objs, index) == objs

\* this.objects.splice(index, 1)
splice(objs, index) ==
    SubSeq(objs, 1, index - 1) \o SubSeq(objs, index + 1, Len(objs))

remove(objs, rs, filter) ==
    LET index == findVectorIndex(objs, filter)
    IN  IF index = 0
        THEN [err |-> TRUE, objects |-> objs, refs |-> rs]
        ELSE [err |-> FALSE, objects |-> splice(objs, index),
              refs |-> splice(rs, index)]

\* Mutant of removeBatch: the index is not compared with -1, and
\* splice(-1, 1) removes the last record.
RECURSIVE removeBatchUnguarded(_, _, _, _)
removeBatchUnguarded(objs, rs, filters, i) ==
    IF i > Len(filters)
    THEN [objects |-> objs, refs |-> rs]
    ELSE LET index == findVectorIndex(objs, filters[i])
         IN  IF index # 0
             THEN removeBatchUnguarded(splice(objs, index), splice(rs, index),
                                       filters, i + 1)
             ELSE removeBatchUnguarded(SubSeq(objs, 1, Len(objs) - 1),
                                       SubSeq(rs, 1, Len(rs) - 1),
                                       filters, i + 1)

RECURSIVE removeBatch(_, _, _, _)
removeBatch(objs, rs, filters, i) ==
    IF i > Len(filters)
    THEN [objects |-> objs, refs |-> rs]
    ELSE LET index == findVectorIndex(objs, filters[i])
         IN  IF index # 0
             THEN removeBatch(splice(objs, index), splice(rs, index),
                              filters, i + 1)
             ELSE removeBatch(objs, rs, filters, i + 1)

\* const vector = this.objects[this.findVectorIndex(filter)]; vector || null
get(objs, filter) ==
    LET index == findVectorIndex(objs, filter)
    IN  IF index = 0 THEN null ELSE Some(objs[index])

size(objs) == Len(objs)

(***************************************************************************)
(* Search.                                                                 *)
(***************************************************************************)
\* options.topK || DEFAULT_TOP_K: undefined and 0 are both falsy.
effectiveTopK(optTopK) ==
    IF optTopK = null \/ optTopK[1] = 0 THEN DEFAULT_TOP_K ELSE optTopK[1]

\* options.filter || {}
effectiveFilter(optFilter) ==
    IF optFilter = null THEN EmptyFilter ELSE optFilter[1]

\* Mutant of offer: a full queue never takes a better candidate.
offerNoReplace(queue, topK, item) ==
    IF Len(queue) < topK THEN queueAdd(queue, item) ELSE queue

\* The queue after one candidate: add while there is room, otherwise replace
\* the root when the candidate's similarity is greater.
offer(queue, topK, item) ==
    IF Len(queue) < topK
    THEN queueAdd(queue, item)
    ELSE IF queuePeek(queue) # null
            /\ Greater(item.similarity, queuePeek(queue)[1].similarity)
    THEN queueAdd(queuePoll(queue), item)
    ELSE queue

\* for (const obj of this.objects) { ... }, from position i on.  An item
\* carries the position of its object in the scanned sequence.
RECURSIVE scanLocal(_, _, _, _, _, _)
scanLocal(objs, i, queue, queryEmbedding, topK, filter) ==
    IF i > Len(objs)
    THEN queue
    ELSE scanLocal(objs, i + 1,
            IF passesFilter(objs[i], filter)
            THEN offer(queue, topK,
                    [similarity |-> cosineSimilarity(queryEmbedding,
                                                     objs[i].embedding.items),
                     object |-> objs[i],
                     pos |-> i])
            ELSE queue,
            queryEmbedding, topK, filter)

\* Mutant of searchResults: the drained queue is not reversed.
searchResultsAscending(queue) == drain(queue)

\* results.reverse() of the drained queue
searchResults(queue) == Reverse(drain(queue))

\* search(queryEmbedding, options) with useStorage 'none'
searchLocal(objs, queryEmbedding, optTopK, optFilter) ==
    searchResults(scanLocal(objs, 1, <<>>, queryEmbedding,
                            effectiveTopK(optTopK), effectiveFilter(optFilter)))

(***************************************************************************)
(* Inputs of the calls.                                                    *)
(***************************************************************************)
E10 == Arr(<<Num(1), Num(0)>>)
E11 == Arr(<<Num(1), Num(1)>>)
E01 == Arr(<<Num(0), Num(1)>>)
E00 == Arr(<<Num(0), Num(0)>>)
EN10 == Arr(<<Num(-1), Num(0)>>)
ES == Arr(<<Str(-1), Str(0)>>)
ENaN == Arr(<<NaN, Num(1)>>)
EEmpty == Arr(<<>>)

\* An array the caller keeps a reference to, with the elements of E10, and
\* the object of the caller that holds it:
\*   const e = [1, 0]; const a = {id: 1, embedding: e};
EH10 == HeldArr(1, <<Num(1), Num(0)>>)
HeldAtStart == <<[id |-> 1, embedding |-> EH10]>>

\* Objects handed to add: accepted ones, one without id, and ones whose
\* embedding is missing, not an array, or holds NaN.
AddInputs ==
    { [id |-> 1, embedding |-> E10],
      [id |-> 1, embedding |-> E11],
      [id |-> 2, embedding |-> E00],
      [id |-> 2, embedding |-> ES],
      [embedding |-> E01],
      [id |-> 1],
      [id |-> 1, embedding |-> NotArray],
      [id |-> 2, embedding |-> ENaN] }

InitialInputs ==
    { <<>>,
      <<[id |-> 1, embedding |-> E10]>>,
      <<[embedding |-> E01], [id |-> 1, embedding |-> E11]>>,
      <<[id |-> 1]>> }

\* Initial objects of the index the searches of both sources are run on: a
\* store that starts with a zero-norm embedding, and one without any.
SearchInitialInputs ==
    { <<[id |-> 2, embedding |-> E00], [id |-> 1, embedding |-> E11],
        [id |-> 1, embedding |-> E10]>>,
      <<[id |-> 1, embedding |-> E11], [id |-> 2, embedding |-> ES],
        [id |-> 1, embedding |-> E10]>> }

Filters == { EmptyFilter, [id |-> 1], [id |-> 2] }

UpdateInputs ==
    { [filter |-> [id |-> 1], vector |-> [id |-> 2]],
      [filter |-> [id |-> 2], vector |-> [id |-> 2, embedding |-> E11]],
      [filter |-> EmptyFilter, vector |-> [embedding |-> ENaN]] }

BatchInputs ==
    { <<[id |-> 1], [id |-> 1]>>, <<[id |-> 2], EmptyFilter>> }

Q10 == <<Num(1), Num(0)>>
Q11 == <<Num(1), Num(1)>>
TopKInputs == { null, Some(0), Some(1), Some(2) }
FilterInputs == { null, Some([id |-> 1]) }

\* (queryEmbedding, options.topK, options.filter) of a search
SearchInputs ==
    ({Q10} \X TopKInputs \X FilterInputs)
        \cup ({Q11} \X {Some(1), Some(2)} \X {null})

(***************************************************************************)
(* IndexedDB: the records of the object stores.                            *)
(***************************************************************************)
\* The object stores when the index is constructed: null for one that does
\* not exist, otherwise the records getAll() returns; they were never
\* validated.  db1/t1 holds an embedding with a NaN element and a record
\* whose embedding is not an array; db2 has no object store t1.
Identities == { <<"db1", "t1">>, <<"db1", "t2">>, <<"db2", "t1">> }

StoredAtStart(DBname, objectStoreName) ==
    CASE <<DBname, objectStoreName>> = <<"db1", "t1">> ->
            Some(<<[id |-> 1, embedding |-> ENaN],
                   [id |-> 1, embedding |-> E11],
                   [id |-> 2, embedding |-> NotArray],
                   [id |-> 1, embedding |-> E10]>>)
      [] <<DBname, objectStoreName>> = <<"db1", "t2">> ->
            Some(<<[id |-> 2, embedding |-> E01],
                   [id |-> 2, embedding |-> E10],
                   [id |-> 1, embedding |-> E11]>>)
      [] <<DBname, objectStoreName>> = <<"db2", "t1">> ->
            null

\* The object store now: null when it does not exist, otherwise what
\* getAll() returns.
Database(DBname, objectStoreName) == indexedDB[<<DBname, objectStoreName>>]

(***************************************************************************)
(* The state after construction.                                           *)
(***************************************************************************)
\* new EmbeddingIndex(initialObjects), where initialRefs are the identities
\* of the initial objects.
ConstructedFrom(initialObjects, initialRefs) ==
    /\ ~constructor(initialObjects, initialRefs).err
    /\ objects = constructor(initialObjects, initialRefs).objects
    /\ refs = constructor(initialObjects, initialRefs).refs
    /\ keys = constructor(initialObjects, initialRefs).keys
    /\ held = HeldAtStart
    /\ indexedDBDataCache = null
    /\ preloadedDBName = null
    /\ preloadedObjectStoreName = null
    /\ calls = EmptyBag
    /\ log = <<[ev |-> "new"], [ev |-> "new"]>>
    /\ indexedDB = [id \in Identities |-> StoredAtStart(id[1], id[2])]
    /\ last = [op |-> "new"]

\* Constructed from object literals.
Constructed(inputs) ==
    \E initialObjects \in inputs :
       ConstructedFrom(initialObjects, [i \in 1..Len(initialObjects) |-> 0])

Init == Constructed(InitialInputs)

InitSearch == Constructed(SearchInitialInputs)

(***************************************************************************)
(* Suspended calls.  A call suspended on an await is a record: what it was *)
(* called with (in), how often it has called indexedDB.open (fetch), and,  *)
(* for the calls that go through IndexedDbManager, what they hold.  A      *)
(* saveToIndexedDB suspended on db.addToIndexedDB(this.objects) has handed *)
(* over the array this.objects itself: until addToIndexedDB has read it,   *)
(* handed and handedRefs are what that array holds now, and live tells     *)
(* that it still is this.objects.                                          *)
(***************************************************************************)
suspended(kind, stage, DBname, objectStoreName, in, fetch) ==
    [kind |-> kind, stage |-> stage, DBname |-> DBname,
     objectStoreName |-> objectStoreName, in |-> in, fetch |-> fetch,
     handed |-> <<>>, handedRefs |-> <<>>, live |-> FALSE,
     data |-> null, got |-> <<>>]

\* The sum of the copies in bag b of the calls of set S.
RECURSIVE copies(_, _)
copies(S, b) ==
    IF S = {}
    THEN 0
    ELSE LET c == CHOOSE x \in S : TRUE
         IN  CopiesIn(c, b) + copies(S \ {c}, b)

\* A suspended call after the record store has changed in place (push,
\* splice, Object.assign) to (objs, rs), the caller's objects being hp: an
\* array that is this.objects has changed with it, and an object of the
\* caller shows its change in every array that holds it.
handedAfter(call, objs, rs, hp) ==
    IF call.live
    THEN [call EXCEPT !.handed = objs, !.handedRefs = rs]
    ELSE IF \E i \in 1..Len(call.handed) : call.handedRefs[i] # 0
    THEN [call EXCEPT !.handed =
            [i \in 1..Len(call.handed) |->
                IF call.handedRefs[i] # 0 THEN hp[call.handedRefs[i]]
                ELSE call.handed[i]]]
    ELSE call

\* The suspended calls after such a change of the record store.
callsAfter(b, objs, rs, hp) ==
    LET S == BagToSet(b)
        T == { handedAfter(c, objs, rs, hp) : c \in S }
    IN  [t \in T |->
            copies({ c \in S : handedAfter(c, objs, rs, hp) = t }, b)]

\* The suspended calls after this.objects = []: the arrays handed over
\* keep what they hold and are this.objects no longer.
callsDetached(b) ==
    LET S == BagToSet(b)
        T == { [c EXCEPT !.live = FALSE] : c \in S }
    IN  [t \in T |-> copies({ c \in S : [c EXCEPT !.live = FALSE] = t }, b)]

(***************************************************************************)
(* The calls on the record store.  An object literal has identity 0; an    *)
(* object of the caller is handed over as it is now.                       *)
(***************************************************************************)
Add(obj, ref) ==
    LET r == validateAndAdd(objects, refs, keys, obj, ref)
    IN  /\ ref # 0 => ref \in DOMAIN held /\ obj = held[ref]
        /\ Len(r.objects) <= MaxObjects
        /\ objects' = r.objects
        /\ refs' = r.refs
        /\ keys' = r.keys
        /\ calls' = callsAfter(calls, r.objects, r.refs, held)
        /\ last' = [op |-> "add", obj |-> obj, err |-> r.err]
        /\ UNCHANGED <<held, cacheVars, log, indexedDB>>

Update(filter, vector, ref) ==
    LET r == update(objects, refs, keys, held, filter, vector, ref)
    IN  /\ ref # 0 => ref \in DOMAIN held /\ vector = held[ref]
        /\ Len(r.objects) <= MaxObjects
        /\ objects' = r.objects
        /\ refs' = r.refs
        /\ keys' = r.keys
        /\ held' = r.held
        /\ calls' = callsAfter(calls, r.objects, r.refs, r.held)
        /\ last' = [op |-> "update", filter |-> filter, vector |-> vector,
                    err |-> r.err]
        /\ UNCHANGED <<cacheVars, log, indexedDB>>

Remove(filter) ==
    LET r == remove(objects, refs, filter)
    IN  /\ objects' = r.objects
        /\ refs' = r.refs
        /\ calls' = callsAfter(calls, r.objects, r.refs, held)
        /\ last' = [op |-> "remove", filter |-> filter, err |-> r.err]
        /\ UNCHANGED <<held, keys, cacheVars, log, indexedDB>>

RemoveBatch(filters) ==
    LET r == removeBatch(objects, refs, filters, 1)
    IN  /\ objects' = r.objects
        /\ refs' = r.refs
        /\ calls' = callsAfter(calls, r.objects, r.refs, held)
        /\ last' = [op |-> "removeBatch", filters |-> filters, err |-> FALSE]
        /\ UNCHANGED <<held, keys, cacheVars, log, indexedDB>>

Get(filter) ==
    /\ last' = [op |-> "get", filter |-> filter, res |-> get(objects, filter)]
    /\ UNCHANGED <<storeVars, cacheVars, calls, log, indexedDB>>

\* this.objects = []: a new array
Clear ==
    /\ objects' = <<>>
    /\ refs' = <<>>
    /\ calls' = callsDetached(calls)
    /\ last' = [op |-> "clear"]
    /\ UNCHANGED <<held, keys, cacheVars, log, indexedDB>>

\* Mutant of SearchLocal: the search reverses the store in place.
SearchLocalReversing(queryEmbedding, optTopK, optFilter) ==
    /\ last' = [op |-> "search", useStorage |-> "none",
                queryEmbedding |-> queryEmbedding,
                topK |-> optTopK, filter |-> optFilter, err |-> FALSE,
                res |-> searchLocal(objects, queryEmbedding, optTopK, optFilter)]
    /\ objects' = Reverse(objects)
    /\ refs' = Reverse(refs)
    /\ UNCHANGED <<held, keys, cacheVars, calls, log, indexedDB>>

\* search with useStorage 'none' (the default)
SearchLocal(queryEmbedding, optTopK, optFilter) ==
    /\ last' = [op |-> "search", useStorage |-> "none",
                queryEmbedding |-> queryEmbedding,
                topK |-> optTopK, filter |-> optFilter, err |-> FALSE,
                res |-> searchLocal(objects, queryEmbedding, optTopK, optFilter)]
    /\ UNCHANGED <<storeVars, cacheVars, calls, log, indexedDB>>

(***************************************************************************)
(* The preload cache.  A cache state is the three cache fields together.   *)
(***************************************************************************)
cacheState == [indexedDBDataCache |-> indexedDBDataCache,
               preloadedDBName |-> preloadedDBName,
               preloadedObjectStoreName |-> preloadedObjectStoreName]

\* Mutant of clearIndexedDBCache: nothing is cleared.
clearNothing(c) == c

clearIndexedDBCache(c) ==
    IF c.indexedDBDataCache # null
    THEN [indexedDBDataCache |-> null,
          preloadedDBName |-> null,
          preloadedObjectStoreName |-> null]
    ELSE c

\* How the fetch of preloadIndexedDB can end: request.onerror, the object
\* store not found, getAllRequest.onerror, getAllRequest.onsuccess.
FetchOutcomes == {"openError", "notFound", "readError", "success"}

\* The ways the fetch can end for an object store: objectStoreNames.contains
\* decides between "not found" and the getAll request.
fetchCanEnd(stored, outcome) ==
    \/ outcome = "openError"
    \/ outcome = "notFound" /\ stored = null
    \/ outcome \in {"readError", "success"} /\ stored # null

\* preloadIndexedDB up to its await: the cache is cleared and the database
\* is opened.
preloadBegin(c) == clearIndexedDBCache(c)

\* Mutant of preloadEnd: the catch block leaves the cache as it is.
preloadEndNoClear(c, DBname, objectStoreName, outcome) ==
    IF outcome = "success"
    THEN [threw |-> FALSE,
          cache |-> [indexedDBDataCache |-> Database(DBname, objectStoreName),
                     preloadedDBName |-> Some(DBname),
                     preloadedObjectStoreName |-> Some(objectStoreName)]]
    ELSE [threw |-> FALSE, cache |-> c]

\* Mutant of preloadEnd: the object store name is not recorded.
preloadEndNoTag(c, DBname, objectStoreName, outcome) ==
    IF outcome = "success"
    THEN [threw |-> FALSE,
          cache |-> [indexedDBDataCache |-> Database(DBname, objectStoreName),
                     preloadedDBName |-> Some(DBname),
                     preloadedObjectStoreName |-> null]]
    ELSE [threw |-> FALSE, cache |-> clearIndexedDBCache(c)]

\* Mutant of preloadEnd: a snapshot already in the cache is kept (the call
\* that completes first wins).
preloadEndKeepFirst(c, DBname, objectStoreName, outcome) ==
    IF outcome = "success"
    THEN [threw |-> FALSE,
          cache |-> IF c.indexedDBDataCache # null
                    THEN c
                    ELSE [indexedDBDataCache |-> Database(DBname, objectStoreName),
                          preloadedDBName |-> Some(DBname),
                          preloadedObjectStoreName |-> Some(objectStoreName)]]
    ELSE [threw |-> FALSE, cache |-> clearIndexedDBCache(c)]

\* preloadIndexedDB after its await: the fetched objects are stored, or the
\* catch block clears the cache; threw tells whether the call rejects.
preloadEnd(c, DBname, objectStoreName, outcome) ==
    IF outcome = "success"
    THEN [threw |-> FALSE,
          cache |-> [indexedDBDataCache |-> Database(DBname, objectStoreName),
                     preloadedDBName |-> Some(DBname),
                     preloadedObjectStoreName |-> Some(objectStoreName)]]
    ELSE [threw |-> FALSE, cache |-> clearIndexedDBCache(c)]

\* Mutant of isCacheValid: the object store name is not compared.
isCacheValidAnyStore(c, DBname, objectStoreName) ==
    /\ c.indexedDBDataCache # null
    /\ c.preloadedDBName = Some(DBname)

isCacheValid(c, DBname, objectStoreName) ==
    /\ c.indexedDBDataCache # null
    /\ c.preloadedDBName = Some(DBname)
    /\ c.preloadedObjectStoreName = Some(objectStoreName)

\* for (const record of objectsToSearch) { ... }: a record that passes the
\* filter and whose embedding is not an array is skipped.
RECURSIVE scanStored(_, _, _, _, _, _)
scanStored(records, i, queue, queryEmbedding, topK, filter) ==
    IF i > Len(records)
    THEN queue
    ELSE scanStored(records, i + 1,
            IF /\ passesFilter(records[i], filter)
               /\ "embedding" \in DOMAIN records[i]
               /\ records[i].embedding.isArray
            THEN offer(queue, topK,
                    [similarity |-> cosineSimilarity(queryEmbedding,
                                                     records[i].embedding.items),
                     object |-> records[i],
                     pos |-> i])
            ELSE queue,
            queryEmbedding, topK, filter)

\* The search of loadAndSearchFromIndexedDB over objectsToSearch, with the
\* topK and the filter the method was given: nothing is defaulted here.
searchStored(objectsToSearch, queryEmbedding, topK, filter) ==
    searchResults(scanStored(objectsToSearch, 1, <<>>, queryEmbedding,
                             topK, filter))

\* loadAndSearchFromIndexedDB after the awaited preload: a cache that is
\* still null throws inside the try block, and the catch returns [].
searchAfterPreload(c, preloadThrew, queryEmbedding, topK, filter) ==
    IF preloadThrew \/ c.indexedDBDataCache = null
    THEN [err |-> FALSE, res |-> <<>>]
    ELSE [err |-> FALSE,
          res |-> searchStored(c.indexedDBDataCache[1], queryEmbedding,
                               topK, filter)]

\* (queryEmbedding, topK, filter) of loadAndSearchFromIndexedDB called by
\* the user: topK 0 is taken as it is.
DirectSearchInputs == { <<Q10, 0, EmptyFilter>>, <<Q10, 0, [id |-> 1]>> }

StoredSearchInputs ==
    { <<Q10, Some(2), null>>, <<Q10, Some(1), Some([id |-> 1])>> }

setCache(c) ==
    /\ indexedDBDataCache' = c.indexedDBDataCache
    /\ preloadedDBName' = c.preloadedDBName
    /\ preloadedObjectStoreName' = c.preloadedObjectStoreName

\* An event tells which call took a step, and fetch how many times that
\* step called indexedDB.open; the event that ends a suspended call tells in
\* fetched how many times the whole call did.
remember(event) == log' = <<log[2], event>>

\* clearIndexedDBCache() called by the user.  The event keeps the names the
\* call found (the ones its console.log prints).
InvalidateCache ==
    /\ setCache(clearIndexedDBCache(cacheState))
    /\ remember([ev |-> "invalidate",
                 cleared |-> <<preloadedDBName, preloadedObjectStoreName>>])
    /\ last' = [op |-> "invalidate"]
    /\ UNCHANGED <<storeVars, calls, indexedDB>>

\* preloadIndexedDB(DBname, objectStoreName) called by the user, up to its
\* await.
PreloadStart(DBname, objectStoreName) ==
    /\ BagCardinality(calls) < MaxCalls
    /\ setCache(preloadBegin(cacheState))
    /\ calls' = calls (+) SetToBag({suspended("preload", "fetch", DBname,
                                               objectStoreName, <<>>, 1)})
    /\ remember([ev |-> "preload", DBname |-> DBname,
                 objectStoreName |-> objectStoreName, fetch |-> 1])
    /\ last' = [op |-> "preloadStart", DBname |-> DBname,
                objectStoreName |-> objectStoreName]
    /\ UNCHANGED <<storeVars, indexedDB>>

\* loadAndSearchFromIndexedDB(DBname, objectStoreName, queryEmbedding, topK,
\* filter), called by search or by the user: answered from a valid cache at
\* once, otherwise suspended on the preload it starts.  last tells the topK
\* and the filter the method was given.
LoadAndSearchFromIndexedDB(DBname, objectStoreName, queryEmbedding, topK, filter) ==
    IF isCacheValid(cacheState, DBname, objectStoreName)
    THEN /\ last' = [op |-> "search", useStorage |-> "indexedDB",
                     DBname |-> DBname, objectStoreName |-> objectStoreName,
                     queryEmbedding |-> queryEmbedding, topK |-> Some(topK),
                     filter |-> Some(filter),
                     outcome |-> "hit", err |-> FALSE,
                     scanned |-> indexedDBDataCache,
                     res |-> searchStored(indexedDBDataCache[1], queryEmbedding,
                                          topK, filter)]
         /\ remember([ev |-> "search", DBname |-> DBname,
                      objectStoreName |-> objectStoreName, fetch |-> 0])
         /\ UNCHANGED <<storeVars, cacheVars, calls, indexedDB>>
    ELSE /\ BagCardinality(calls) < MaxCalls
         /\ setCache(preloadBegin(cacheState))
         /\ calls' = calls (+) SetToBag({suspended("search", "fetch", DBname,
                                                    objectStoreName,
                                                    <<queryEmbedding, topK, filter>>,
                                                    1)})
         /\ remember([ev |-> "search", DBname |-> DBname,
                      objectStoreName |-> objectStoreName, fetch |-> 1])
         /\ last' = [op |-> "searchStart", DBname |-> DBname,
                     objectStoreName |-> objectStoreName]
         /\ UNCHANGED <<storeVars, indexedDB>>

\* search with useStorage 'indexedDB', where indexedDB is defined and the
\* storageOptions name the database and the object store: topK and filter
\* are defaulted and handed to loadAndSearchFromIndexedDB.
SearchStoredStart(DBname, objectStoreName, in) ==
    LoadAndSearchFromIndexedDB(DBname, objectStoreName, in[1],
                               effectiveTopK(in[2]), effectiveFilter(in[3]))

\* The fetch of a suspended call ends: the rest of preloadIndexedDB runs and,
\* for a search, the rest of loadAndSearchFromIndexedDB.
FetchDone(call, outcome) ==
    LET p == preloadEnd(cacheState, call.DBname, call.objectStoreName, outcome)
        r == searchAfterPreload(p.cache, p.threw, call.in[1], call.in[2], call.in[3])
    IN  /\ call.kind \in {"preload", "search"}
        /\ fetchCanEnd(Database(call.DBname, call.objectStoreName), outcome)
        /\ calls' = calls (-) SetToBag({call})
        /\ setCache(p.cache)
        /\ IF call.kind = "preload"
           THEN /\ last' = [op |-> "preload", DBname |-> call.DBname,
                            objectStoreName |-> call.objectStoreName,
                            outcome |-> outcome, err |-> p.threw]
                /\ remember([ev |-> "preloaded", DBname |-> call.DBname,
                             objectStoreName |-> call.objectStoreName,
                             ok |-> outcome = "success", fetch |-> 0,
                             fetched |-> call.fetch])
           ELSE /\ last' = [op |-> "search", useStorage |-> "indexedDB",
                            DBname |-> call.DBname,
                            objectStoreName |-> call.objectStoreName,
                            queryEmbedding |-> call.in[1],
                            topK |-> Some(call.in[2]),
                            filter |-> Some(call.in[3]),
                            outcome |-> outcome, err |-> r.err,
                            scanned |-> p.cache.indexedDBDataCache,
                            res |-> r.res]
                /\ remember([ev |-> "searched", DBname |-> call.DBname,
                             objectStoreName |-> call.objectStoreName,
                             ok |-> outcome = "success", fetch |-> 0,
                             fetched |-> call.fetch])
        /\ UNCHANGED <<storeVars, indexedDB>>

(***************************************************************************)
(* The calls that go through IndexedDbManager, which is not part of the    *)
(* source at hand: create opens the database, creating it when absent, and *)
(* makes sure the object store exists; addToIndexedDB writes the records   *)
(* of the array it is handed, appending them to the object store or        *)
(* replacing what it holds; deleteIndexedDBObjectStoreFromDB deletes the   *)
(* object store; dbGenerator yields its records one by one.  Each await is *)
(* a step of its own.  Two things are the manager's to decide, and every   *)
(* choice is a behaviour here: when between its call and its end           *)
(* addToIndexedDB reads the array, and whether dbGenerator yields the      *)
(* records the object store held when the loop began or the ones it holds  *)
(* when each is asked for.                                                 *)
(***************************************************************************)
CreateOutcomes == {"opened", "createError"}
SaveOutcomes == {"appended", "replaced", "writeError"}
DeleteOutcomes == {"deleted", "deleteError"}
ReadOutcomes == {"record", "end", "readError"}

\* The object store after IndexedDbManager.create.
create(stored, outcome) ==
    IF outcome = "opened" /\ stored = null THEN Some(<<>>) ELSE stored

\* The object store after addToIndexedDB(objs); nothing can be written to
\* an object store that is gone.
addToIndexedDB(stored, objs, outcome) ==
    CASE stored = null -> stored
      [] outcome = "appended" -> Some(stored[1] \o objs)
      [] outcome = "replaced" -> Some(objs)
      [] outcome = "writeError" -> stored

\* A call suspended on IndexedDbManager.create or on the request after it.
managerCall(kind, DBname, objectStoreName) ==
    suspended(kind, "create", DBname, objectStoreName, <<>>, 0)

\* saveToIndexedDB(DBname, objectStoreName), where indexedDB is defined: an
\* empty index throws at once, otherwise the call is suspended on
\* IndexedDbManager.create.
SaveStart(DBname, objectStoreName) ==
    IF Len(objects) = 0
    THEN /\ last' = [op |-> "save", DBname |-> DBname,
                     objectStoreName |-> objectStoreName,
                     outcome |-> "empty", err |-> TRUE]
         /\ UNCHANGED <<storeVars, cacheVars, calls, log, indexedDB>>
    ELSE /\ BagCardinality(calls) < MaxCalls
         /\ calls' = calls (+) SetToBag({managerCall("save", DBname,
                                                      objectStoreName)})
         /\ last' = [op |-> "saveStart", DBname |-> DBname,
                     objectStoreName |-> objectStoreName]
         /\ UNCHANGED <<storeVars, cacheVars, log, indexedDB>>

\* saveIndex(storageType, {DBName, objectStoreName})
SaveIndex(storageType, DBName, objectStoreName) ==
    IF storageType = "indexedDB"
    THEN SaveStart(DBName, objectStoreName)
    ELSE /\ last' = [op |-> "saveIndex", storageType |-> storageType,
                     outcome |-> "unsupported", err |-> TRUE]
         /\ UNCHANGED <<storeVars, cacheVars, calls, log, indexedDB>>

\* deleteIndexedDBObjectStore(DBname, objectStoreName) up to its first await
DeleteObjectStoreStart(DBname, objectStoreName) ==
    /\ BagCardinality(calls) < MaxCalls
    /\ calls' = calls (+) SetToBag({managerCall("deleteObjectStore", DBname,
                                                 objectStoreName)})
    /\ last' = [op |-> "deleteObjectStoreStart", DBname |-> DBname,
                objectStoreName |-> objectStoreName]
    /\ UNCHANGED <<storeVars, cacheVars, log, indexedDB>>

\* getAllObjectsFromIndexedDB(DBname, objectStoreName) up to its first await
GetAllStart(DBname, objectStoreName) ==
    /\ BagCardinality(calls) < MaxCalls
    /\ calls' = calls (+) SetToBag({managerCall("getAll", DBname,
                                                 objectStoreName)})
    /\ last' = [op |-> "getAllStart", DBname |-> DBname,
                objectStoreName |-> objectStoreName]
    /\ UNCHANGED <<storeVars, cacheVars, log, indexedDB>>

\* IndexedDbManager.create of a suspended call ends.  When it fails the
\* call rejects.  Otherwise the call goes on to its request and is
\* suspended on it: saveToIndexedDB hands db.addToIndexedDB the array
\* this.objects, and getAllObjectsFromIndexedDB begins its loop over
\* db.dbGenerator(), which in data keeps the records of the object store
\* when it is isolated from later writes.
CreateDone(call, outcome, isolated) ==
    LET id == <<call.DBname, call.objectStoreName>>
        next == CASE call.kind = "save" ->
                       [call EXCEPT !.stage = "request", !.handed = objects,
                                    !.handedRefs = refs, !.live = TRUE]
                  [] call.kind = "getAll" /\ isolated ->
                       [call EXCEPT !.stage = "request",
                                    !.data = create(indexedDB[id], outcome)]
                  [] OTHER -> [call EXCEPT !.stage = "request"]
    IN  /\ call.stage = "create"
        /\ isolated => call.kind = "getAll" /\ outcome = "opened"
        /\ indexedDB' = [indexedDB EXCEPT ![id] = create(@, outcome)]
        /\ IF outcome = "createError"
           THEN /\ calls' = calls (-) SetToBag({call})
                /\ last' = [op |-> call.kind, DBname |-> call.DBname,
                            objectStoreName |-> call.objectStoreName,
                            outcome |-> outcome, err |-> TRUE]
           ELSE /\ calls' = (calls (-) SetToBag({call})) (+) SetToBag({next})
                /\ last' = [op |-> "created", kind |-> call.kind,
                            DBname |-> call.DBname,
                            objectStoreName |-> call.objectStoreName]
        /\ UNCHANGED <<storeVars, cacheVars, log>>

\* addToIndexedDB of a suspended saveToIndexedDB reads the array it was
\* handed, as it is now, for the records it will store.
SaveRead(call) ==
    /\ call.kind = "save"
    /\ call.stage = "request"
    /\ call.data = null
    /\ calls' = (calls (-) SetToBag({call}))
                    (+) SetToBag({[call EXCEPT !.data = Some(clone(call.handed)),
                                               !.handed = <<>>,
                                               !.handedRefs = <<>>,
                                               !.live = FALSE]})
    /\ last' = [op |-> "saveRead", DBname |-> call.DBname,
                objectStoreName |-> call.objectStoreName]
    /\ UNCHANGED <<storeVars, cacheVars, log, indexedDB>>

\* Mutant of SaveDone: a save that wrote the records drops the snapshot.
SaveDoneInvalidating(call, outcome) ==
    LET id == <<call.DBname, call.objectStoreName>>
        records == IF call.data = null THEN <<>> ELSE call.data[1]
        written == addToIndexedDB(indexedDB[id], records, outcome)
    IN  /\ call.kind = "save"
        /\ call.stage = "request"
        /\ call.data = null \/ indexedDB[id] = null => outcome = "writeError"
        /\ written # null => Len(written[1]) <= MaxStored
        /\ calls' = calls (-) SetToBag({call})
        /\ indexedDB' = [indexedDB EXCEPT ![id] = written]
        /\ last' = [op |-> "save", DBname |-> call.DBname,
                    objectStoreName |-> call.objectStoreName,
                    outcome |-> outcome, err |-> outcome = "writeError"]
        /\ setCache(IF outcome = "writeError" THEN cacheState
                    ELSE clearIndexedDBCache(cacheState))
        /\ UNCHANGED <<storeVars, log>>

\* db.addToIndexedDB of a suspended saveToIndexedDB ends: the records it
\* read from the array are written, whatever the index holds by now, and
\* the call ends; a failure is thrown again.
SaveDone(call, outcome) ==
    LET id == <<call.DBname, call.objectStoreName>>
        records == IF call.data = null THEN <<>> ELSE call.data[1]
        written == addToIndexedDB(indexedDB[id], records, outcome)
    IN  /\ call.kind = "save"
        /\ call.stage = "request"
        /\ call.data = null \/ indexedDB[id] = null => outcome = "writeError"
        /\ written # null => Len(written[1]) <= MaxStored
        /\ calls' = calls (-) SetToBag({call})
        /\ indexedDB' = [indexedDB EXCEPT ![id] = written]
        /\ last' = [op |-> "save", DBname |-> call.DBname,
                    objectStoreName |-> call.objectStoreName,
                    outcome |-> outcome, err |-> outcome = "writeError"]
        /\ UNCHANGED <<storeVars, cacheVars, log>>

\* db.deleteIndexedDBObjectStoreFromDB of a suspended
\* deleteIndexedDBObjectStore ends; a failure is thrown again.
DeleteObjectStoreDone(call, outcome) ==
    LET id == <<call.DBname, call.objectStoreName>>
    IN  /\ call.kind = "deleteObjectStore"
        /\ call.stage = "request"
        /\ calls' = calls (-) SetToBag({call})
        /\ indexedDB' = [indexedDB EXCEPT
                            ![id] = IF outcome = "deleted" THEN null ELSE @]
        /\ last' = [op |-> "deleteObjectStore", DBname |-> call.DBname,
                    objectStoreName |-> call.objectStoreName,
                    outcome |-> outcome, err |-> outcome = "deleteError"]
        /\ UNCHANGED <<storeVars, cacheVars, log>>

\* One await of the loop over db.dbGenerator() of a suspended
\* getAllObjectsFromIndexedDB ends: with the next record, which is pushed,
\* with the end, and the call returns the records it has, or with a
\* failure, and the call rejects.
GetAllNext(call, outcome) ==
    LET source == IF call.data # null THEN call.data
                  ELSE Database(call.DBname, call.objectStoreName)
        k == Len(call.got) + 1
    IN  /\ call.kind = "getAll"
        /\ call.stage = "request"
        /\ outcome = "record" => source # null /\ k <= Len(source[1])
        /\ outcome = "end" => source # null /\ k > Len(source[1])
        /\ IF outcome = "record"
           THEN /\ calls' = (calls (-) SetToBag({call}))
                      (+) SetToBag({[call EXCEPT
                                       !.got = Append(@, source[1][k])]})
                /\ last' = [op |-> "getAllNext", DBname |-> call.DBname,
                            objectStoreName |-> call.objectStoreName,
                            record |-> source[1][k]]
           ELSE /\ calls' = calls (-) SetToBag({call})
                /\ last' = [op |-> "getAll", DBname |-> call.DBname,
                            objectStoreName |-> call.objectStoreName,
                            outcome |-> outcome, err |-> outcome = "readError",
                            res |-> IF outcome = "end" THEN call.got ELSE <<>>]
        /\ UNCHANGED <<storeVars, cacheVars, log, indexedDB>>

\* deleteIndexedDB(DBname), where indexedDB is defined, up to the end of
\* the deleteDatabase request.
DeleteIndexedDBStart(DBname) ==
    /\ BagCardinality(calls) < MaxCalls
    /\ calls' = calls (+) SetToBag({suspended("deleteIndexedDB", "request",
                                               DBname, "", <<>>, 0)})
    /\ last' = [op |-> "deleteIndexedDBStart", DBname |-> DBname]
    /\ UNCHANGED <<storeVars, cacheVars, log, indexedDB>>

\* request.onsuccess or request.onerror of deleteDatabase: with the
\* database every object store of it is gone.
DeleteIndexedDBDone(call, outcome) ==
    /\ call.kind = "deleteIndexedDB"
    /\ calls' = calls (-) SetToBag({call})
    /\ indexedDB' = [id \in DOMAIN indexedDB |->
                        IF outcome = "deleted" /\ id[1] = call.DBname
                        THEN null ELSE indexedDB[id]]
    /\ last' = [op |-> "deleteIndexedDB", DBname |-> call.DBname,
                outcome |-> outcome, err |-> outcome = "deleteError"]
    /\ UNCHANGED <<storeVars, cacheVars, log>>

NextSearch ==
    \/ \E in \in StoredSearchInputs : SearchLocal(in[1], in[2], in[3])
    \/ InvalidateCache
    \/ \E id \in Identities : PreloadStart(id[1], id[2])
    \/ \E id \in Identities, in \in StoredSearchInputs :
          SearchStoredStart(id[1], id[2], in)
    \/ \E id \in Identities, in \in DirectSearchInputs :
          LoadAndSearchFromIndexedDB(id[1], id[2], in[1], in[2], in[3])
    \/ \E call \in BagToSet(calls) :
          \E outcome \in FetchOutcomes :
             FetchDone(call, outcome)

SpecSearch == InitSearch /\ [][NextSearch]_vars

NextStore ==
    \/ \E obj \in AddInputs : Add(obj, 0)
    \/ \E u \in UpdateInputs : Update(u.filter, u.vector, 0)
    \/ \E filter \in Filters : Remove(filter)
    \/ \E filters \in BatchInputs : RemoveBatch(filters)
    \/ \E filter \in Filters : Get(filter)
    \/ Clear
    \/ \E in \in SearchInputs : SearchLocal(in[1], in[2], in[3])

SpecStore == Init /\ [][NextStore]_vars

\* The top-K selection of both sources on every candidate sequence of up to
\* MaxCandidates records, in every arrival order: against the query (1, 0)
\* the records score 1, 1 (a tie), 0.707, 0, -1 and NaN (the zero vector).
\* The index is constructed from the sequence and the object store db1/t1
\* holds the same records.
MaxCandidates == 3

TopKRecords ==
    { [id |-> 1, embedding |-> E10],
      [id |-> 2, embedding |-> E10],
      [id |-> 1, embedding |-> E11],
      [id |-> 2, embedding |-> E01],
      [id |-> 1, embedding |-> EN10],
      [id |-> 2, embedding |-> E00] }

CandidateSequences ==
    UNION { [1..n -> TopKRecords] : n \in 0..MaxCandidates }

TopKIdentity == <<"db1", "t1">>

TopKSearchInputs == {Q10} \X {Some(1), Some(2), Some(3)} \X FilterInputs

InitTopK ==
    \E candidates \in CandidateSequences :
       LET c == constructor(candidates, [i \in 1..Len(candidates) |-> 0])
       IN  /\ ~c.err
           /\ objects = c.objects
           /\ refs = c.refs
           /\ keys = c.keys
           /\ held = HeldAtStart
           /\ indexedDBDataCache = null
           /\ preloadedDBName = null
           /\ preloadedObjectStoreName = null
           /\ calls = EmptyBag
           /\ log = <<[ev |-> "new"], [ev |-> "new"]>>
           /\ indexedDB = [id \in Identities |->
                              IF id = TopKIdentity THEN Some(clone(c.objects))
                              ELSE StoredAtStart(id[1], id[2])]
           /\ last = [op |-> "new"]

NextTopK ==
    \/ \E in \in TopKSearchInputs : SearchLocal(in[1], in[2], in[3])
    \/ \E in \in StoredSearchInputs :
          SearchStoredStart(TopKIdentity[1], TopKIdentity[2], in)
    \/ \E call \in BagToSet(calls) :
          \E outcome \in FetchOutcomes :
             FetchDone(call, outcome)

SpecTopK == InitTopK /\ [][NextTopK]_vars

\* The calls that change the record store.  Among the object literals
\* handed to add is one whose embedding is the empty array; the caller also
\* hands over an object it keeps, as often as it likes, and filters by the
\* array it keeps and by a literal with the same elements.
MutateAddInputs ==
    { [id |-> 1, embedding |-> E10],
      [id |-> 2, embedding |-> E00],
      [id |-> 1, embedding |-> EEmpty],
      [embedding |-> E01],
      [id |-> 1],
      [id |-> 2, embedding |-> ENaN] }

MutateFilters == Filters \cup { [embedding |-> EH10], [embedding |-> E10] }

InitMutate == Init \/ ConstructedFrom(HeldAtStart, <<1>>)

NextMutate ==
    \/ \E obj \in MutateAddInputs : Add(obj, 0)
    \/ \E ref \in DOMAIN held : Add(held[ref], ref)
    \/ \E u \in UpdateInputs : Update(u.filter, u.vector, 0)
    \/ \E ref \in DOMAIN held : Update([embedding |-> EH10], held[ref], ref)
    \/ \E filter \in MutateFilters : Remove(filter)
    \/ \E filters \in BatchInputs : RemoveBatch(filters)
    \/ Clear

SpecMutate == InitMutate /\ [][NextMutate]_vars

\* The index as a whole: the calls that change the record store; saving,
\* reading and deleting; and the cache with the storage-backed search, on
\* an object store that does not exist when the index is constructed.  The
\* caller makes a call whenever it likes, also while others are suspended.
IndexInitialInputs == { <<[id |-> 1, embedding |-> E10]>> }
IndexIdentities == { <<"db2", "t1">> }
IndexSearchInput == <<Q10, Some(2), null>>
StorageTypes == {"indexedDB", "localStorage"}
MaxIndexObjects == 2
MaxIndexStored == 1

InitIndex == Constructed(IndexInitialInputs)

\* The record store's calls, saving and storage-backed search.  No call
\* waits for another: any of them is taken while others are suspended.
NextIndex ==
    \/ /\ Len(objects) < MaxIndexObjects
       /\ Add([id |-> 2, embedding |-> E11], 0)
    \/ Update([id |-> 1], [id |-> 2], 0)
    \/ Remove([id |-> 2])
    \/ RemoveBatch(<<[id |-> 1], [id |-> 1]>>)
    \/ Clear
    \/ \E id \in IndexIdentities : SaveStart(id[1], id[2])
    \/ \E id \in IndexIdentities, storageType \in StorageTypes :
          SaveIndex(storageType, id[1], id[2])
    \/ \E call \in BagToSet(calls) :
          \E outcome \in CreateOutcomes :
             CreateDone(call, outcome, FALSE)
    \/ \E call \in BagToSet(calls) : SaveRead(call)
    \/ \E call \in BagToSet(calls) :
          \E outcome \in SaveOutcomes :
             /\ SaveDone(call, outcome)
             /\ \A id \in IndexIdentities :
                   Database(id[1], id[2])' # null
                       => Len(Database(id[1], id[2])'[1]) <= MaxIndexStored
    \/ \E id \in IndexIdentities :
          SearchStoredStart(id[1], id[2], IndexSearchInput)
    \/ \E call \in BagToSet(calls) :
          \E outcome \in FetchOutcomes :
             FetchDone(call, outcome)

SpecIndex == InitIndex /\ [][NextIndex]_vars

\* Saving, deleting, reading back and preloading one object store, with the
\* record store being emptied and the snapshot dropped meanwhile.
NextManage ==
    \/ Clear
    \/ \E id \in IndexIdentities : SaveStart(id[1], id[2])
    \/ \E id \in IndexIdentities : DeleteObjectStoreStart(id[1], id[2])
    \/ \E id \in IndexIdentities : GetAllStart(id[1], id[2])
    \/ \E id \in IndexIdentities : DeleteIndexedDBStart(id[1])
    \/ \E call \in BagToSet(calls) :
          \E outcome \in CreateOutcomes, isolated \in BOOLEAN :
             CreateDone(call, outcome, isolated)
    \/ \E call \in BagToSet(calls) : SaveRead(call)
    \/ \E call \in BagToSet(calls) :
          \E outcome \in SaveOutcomes :
             SaveDone(call, outcome)
    \/ \E call \in BagToSet(calls) :
          \E outcome \in DeleteOutcomes :
             DeleteObjectStoreDone(call, outcome)
    \/ \E call \in BagToSet(calls) :
          \E outcome \in ReadOutcomes :
             GetAllNext(call, outcome)
    \/ \E call \in BagToSet(calls) :
          \E outcome \in DeleteOutcomes :
             DeleteIndexedDBDone(call, outcome)
    \/ InvalidateCache
    \/ \E id \in IndexIdentities : PreloadStart(id[1], id[2])
    \/ \E call \in BagToSet(calls) :
          \E outcome \in FetchOutcomes :
             FetchDone(call, outcome)

SpecManage == InitIndex /\ [][NextManage]_vars


(***************************************************************************)
(* What the claims speak of, stated apart from the operators above.        *)
(***************************************************************************)
Min(a, b) == IF a <= b THEN a ELSE b

\* The record's value at every key of the filter equals the filter's value.
Satisfies(object, filter) ==
    \A key \in DOMAIN filter :
        /\ key \in DOMAIN object
        /\ \/ key # "embedding" /\ object[key] = filter[key]
           \/ /\ key = "embedding"
              /\ object[key] = filter[key]
              /\ object[key].isArray => object[key].ref > 0

SearchDone == last.op = "search"
LocalSearchDone == SearchDone /\ last.useStorage = "none"
StoredSearchDone == SearchDone /\ last.useStorage = "indexedDB"

\* The filter and the candidate sequence of the search in last.
FilterUsed == IF last.filter = null THEN EmptyFilter ELSE last.filter[1]

Candidates ==
    IF last.useStorage = "none" THEN objects
    ELSE IF last.scanned = null THEN <<>> ELSE last.scanned[1]

\* Positions of the candidates that match the filter (and, in a snapshot,
\* have an array for embedding).
Eligible ==
    { i \in 1..Len(Candidates) :
        /\ Satisfies(Candidates[i], FilterUsed)
        /\ "embedding" \in DOMAIN Candidates[i]
        /\ Candidates[i].embedding.isArray }

ScoreOf(i) == cosineSimilarity(last.queryEmbedding, Candidates[i].embedding.items)

AllComparable == \A i \in Eligible : ~ScoreOf(i).nan

Returned == { last.res[j].pos : j \in 1..Len(last.res) }

\* No eligible candidate left out scores strictly more than a returned one.
NoneBetterLeftOut ==
    \A i \in Eligible \ Returned :
        \A j \in 1..Len(last.res) : ~Greater(ScoreOf(i), last.res[j].similarity)

(***************************************************************************)
(* C1: with comparable scores, a local search with topK = K >= 1 returns   *)
(* min(K, number of matching records) results in descending score order.   *)
(***************************************************************************)
C1_CountAndOrder ==
    (LocalSearchDone /\ last.topK # null /\ last.topK[1] >= 1 /\ AllComparable)
        => /\ Len(last.res) = Min(last.topK[1], Cardinality(Eligible))
           /\ \A j \in 1..(Len(last.res) - 1) :
                 ~Less(last.res[j].similarity, last.res[j + 1].similarity)

C1_Witness ==
    /\ LocalSearchDone
    /\ last.topK = Some(2)
    /\ AllComparable
    /\ Cardinality(Eligible) = 3
    /\ Len(last.res) = 2
    /\ Less(last.res[2].similarity, last.res[1].similarity)

(***************************************************************************)
(* C2 as claimed: for every candidate sequence and topK >= 1, no matching  *)
(* record left out of the result scores strictly more than a returned one. *)
(***************************************************************************)
C2_Original ==
    (SearchDone /\ last.topK # null /\ last.topK[1] >= 1) => NoneBetterLeftOut

(***************************************************************************)
(* C2 amended: when every matching candidate has a comparable score (none  *)
(* is NaN), the search of either source returns min(K, matching) results   *)
(* and leaves out no matching record that scores strictly more than a      *)
(* returned one.                                                           *)
(***************************************************************************)
C2_TopKComparable ==
    (SearchDone /\ last.topK # null /\ last.topK[1] >= 1 /\ AllComparable
        /\ (StoredSearchDone => last.scanned # null))
        => /\ NoneBetterLeftOut
           /\ Len(last.res) = Min(last.topK[1], Cardinality(Eligible))

\* A storage-backed search whose queue was full when the last candidate
\* arrived: it scores less than both results and was discarded.
C2_Witness ==
    /\ StoredSearchDone
    /\ last.topK = Some(2)
    /\ AllComparable
    /\ Len(last.res) = 2
    /\ \E i \in Eligible \ Returned :
          \A j \in 1..Len(last.res) :
             /\ Less(ScoreOf(i), last.res[j].similarity)
             /\ last.res[j].pos < i

(***************************************************************************)
(* C3: every result of a search, local or storage-backed, references a     *)
(* record that satisfies the filter of the call.                           *)
(***************************************************************************)
C3_ResultsPassFilter ==
    SearchDone =>
        \A j \in 1..Len(last.res) : Satisfies(last.res[j].object, FilterUsed)

C3_Witness ==
    /\ StoredSearchDone
    /\ last.filter = Some([id |-> 1])
    /\ Len(last.res) = 1
    /\ \E i \in 1..Len(Candidates) :
          /\ ~Satisfies(Candidates[i], FilterUsed)
          /\ Candidates[i].embedding.isArray
          /\ Greater(cosineSimilarity(last.queryEmbedding,
                                      Candidates[i].embedding.items),
                     last.res[1].similarity)

(***************************************************************************)
(* C4 as claimed: the number of results of a search never exceeds a topK   *)
(* the caller supplies, 0 included.                                        *)
(***************************************************************************)
C4_Original ==
    (LocalSearchDone /\ last.topK # null) => Len(last.res) <= last.topK[1]

(***************************************************************************)
(* C5 as claimed: an explicit preload whose fetch fails ends in an error   *)
(* and leaves the cache empty.                                             *)
(***************************************************************************)
C5_Original ==
    (last.op = "preload" /\ last.outcome # "success")
        => last.err /\ indexedDBDataCache = null

(***************************************************************************)
(* C6: a storage-backed search whose preload-on-miss fails does not raise, *)
(* returns an empty list, and leaves the cache empty.                      *)
(***************************************************************************)
C6_FailedPreloadDegrades ==
    (StoredSearchDone /\ last.outcome \in {"openError", "notFound", "readError"})
        => /\ ~last.err
           /\ last.res = <<>>
           /\ indexedDBDataCache = null
           /\ preloadedDBName = null
           /\ preloadedObjectStoreName = null

\* The failed search ends right after an overlapping preload has filled the
\* cache.
C6_Witness ==
    /\ StoredSearchDone
    /\ last.outcome = "notFound"
    /\ log[1].ev = "preloaded"
    /\ log[1].ok

(***************************************************************************)
(* C7: a storage-backed search that missed and fetched successfully,       *)
(* followed with no cache event in between by a storage-backed search of   *)
(* the same database and object store: one fetch in total, by the first.   *)
(***************************************************************************)
C7_SecondSearchNoFetch ==
    (/\ log[1].ev = "searched"
     /\ log[1].ok
     /\ log[2].ev = "search"
     /\ log[2].DBname = log[1].DBname
     /\ log[2].objectStoreName = log[1].objectStoreName)
        => log[1].fetched + log[2].fetch = 1

C7_Witness ==
    /\ log[1].ev = "searched"
    /\ log[1].ok
    /\ log[1].fetched = 1
    /\ log[2].ev = "search"
    /\ log[2].DBname = log[1].DBname
    /\ log[2].objectStoreName = log[1].objectStoreName
    /\ log[2].fetch = 0
    /\ StoredSearchDone
    /\ last.outcome = "hit"

(***************************************************************************)
(* C8: a storage-backed search that directly follows invalidateCache()     *)
(* fetches, whatever snapshot the cache held before.                       *)
(***************************************************************************)
C8_FetchAfterInvalidate ==
    (log[1].ev = "invalidate" /\ log[2].ev = "search") => log[2].fetch = 1

\* The invalidate dropped a snapshot of the very store searched next.
C8_Witness ==
    /\ log[1].ev = "invalidate"
    /\ log[2].ev = "search"
    /\ log[1].cleared = <<Some(log[2].DBname), Some(log[2].objectStoreName)>>
    /\ log[2].fetch = 1

(***************************************************************************)
(* C9 as claimed: add fails exactly when the embedding is missing, is not  *)
(* a numeric array or contains NaN, or the record lacks an attribute of    *)
(* the established schema; a failed add changes nothing, a successful one  *)
(* appends the record.                                                     *)
(***************************************************************************)
NotNumericArray(obj) ==
    \/ "embedding" \notin DOMAIN obj
    \/ ~obj.embedding.isArray
    \/ \E i \in 1..Len(obj.embedding.items) : obj.embedding.items[i].t # "number"

C9_Original ==
    [][last'.op = "add" =>
        /\ last'.err <=> \/ NotNumericArray(last'.obj)
                         \/ keys # {} /\ \E key \in keys : key \notin DOMAIN last'.obj
        /\ last'.err => objects' = objects /\ keys' = keys
        /\ ~last'.err => objects' = Append(objects, last'.obj)]_vars

(***************************************************************************)
(* C10 as claimed: after a successful remove(filter), get(filter) returns  *)
(* null, however many records matched before.                              *)
(***************************************************************************)
C10_Original ==
    (last.op = "remove" /\ ~last.err) => get(objects, last.filter) = null

(***************************************************************************)
(* C10 amended: after a successful remove(filter) that found exactly one   *)
(* matching record, get(filter) returns null.                              *)
(***************************************************************************)
C10_RemoveThenGetSingleMatch ==
    [][(/\ last'.op = "remove"
        /\ ~last'.err
        /\ Cardinality({ i \in 1..Len(objects) :
                            Satisfies(objects[i], last'.filter) }) = 1)
        => get(objects', last'.filter) = null]_vars

C10_Witness ==
    /\ last.op = "remove"
    /\ ~last.err
    /\ last.filter = [id |-> 2]
    /\ Len(objects) = 2
    /\ get(objects, last.filter) = null

(***************************************************************************)
(* C11 as claimed: whatever the store already holds, after an accepted     *)
(* add(r) a get(filter) with a filter that r matches returns a record      *)
(* equal to r.                                                             *)
(***************************************************************************)
C11_Original ==
    (last.op = "add" /\ ~last.err)
        => \A filter \in MutateFilters :
              Satisfies(last.obj, filter) => get(objects, filter) = Some(last.obj)

(***************************************************************************)
(* C11 amended: after an accepted add(r), a get(filter) with a filter that *)
(* r matches and no record stored before r matches returns a record equal  *)
(* to r.                                                                   *)
(***************************************************************************)
C11_AddThenGetNoEarlierMatch ==
    (last.op = "add" /\ ~last.err)
        => \A filter \in MutateFilters :
              (/\ Satisfies(last.obj, filter)
               /\ \A i \in 1..(Len(objects) - 1) : ~Satisfies(objects[i], filter))
                  => get(objects, filter) = Some(last.obj)

\* The added record is the third of the store and the only one with its id.
C11_Witness ==
    /\ last.op = "add"
    /\ ~last.err
    /\ Len(objects) = 3
    /\ last.obj = [id |-> 2, embedding |-> E00]
    /\ \A i \in 1..2 : ~Satisfies(objects[i], [id |-> 2])
    /\ get(objects, [id |-> 2]) = Some(last.obj)

\* The position of the first record that satisfies the filter, 0 when none.
FirstMatch(objs, filter) ==
    IF \E i \in 1..Len(objs) : Satisfies(objs[i], filter)
    THEN CHOOSE i \in 1..Len(objs) :
            /\ Satisfies(objs[i], filter)
            /\ \A j \in 1..(i - 1) : ~Satisfies(objs[j], filter)
    ELSE 0

(***************************************************************************)
(* C12: when update(filter, patch) succeeds, the record the filter matched *)
(* first holds afterwards the patch's value for every attribute of the     *)
(* patch and its previous value for every other attribute, and no other    *)
(* attribute.                                                              *)
(***************************************************************************)
C12_UpdateMerges ==
    [][(last'.op = "update" /\ ~last'.err)
        => LET i == FirstMatch(objects, last'.filter)
               before == objects[i]
               after == objects'[i]
               patch == last'.vector
           IN  /\ i # 0
               /\ DOMAIN after = DOMAIN before \cup DOMAIN patch
               /\ \A k \in DOMAIN patch : after[k] = patch[k]
               /\ \A k \in DOMAIN before \ DOMAIN patch : after[k] = before[k]]_vars

\* The only record had id 1; the patch {id: 2} left its embedding in place.
C12_Witness ==
    /\ last.op = "update"
    /\ ~last.err
    /\ last.filter = [id |-> 1]
    /\ last.vector = [id |-> 2]
    /\ objects = <<[id |-> 2, embedding |-> E10]>>

\* No record of objs satisfies any filter of the list.
NoMatchLeft(objs, filters) ==
    \A k \in 1..Len(filters) :
        \A i \in 1..Len(objs) : ~Satisfies(objs[i], filters[k])

(***************************************************************************)
(* C13 as claimed: for every store and filter list, a second removeBatch   *)
(* with the same list does not fail and leaves the store exactly as the    *)
(* first call left it.                                                     *)
(***************************************************************************)
C13_Original ==
    last.op = "removeBatch"
        => ~last.err /\ removeBatch(objects, refs, last.filters, 1).objects = objects

(***************************************************************************)
(* C13 amended: removeBatch never fails, and a call made when no record    *)
(* matches any filter of its list (as a second call does once the first    *)
(* has removed every match) leaves the store, records and order, as it     *)
(* found it.                                                               *)
(***************************************************************************)
C13_RemoveBatchNoMatchNoChange ==
    [][last'.op = "removeBatch"
        => /\ ~last'.err
           /\ NoMatchLeft(objects, last'.filters) => objects' = objects]_vars

\* A removeBatch of {id: 1} twice has left two records, neither with id 1:
\* the same call again would leave them both.
C13_Witness ==
    /\ last.op = "removeBatch"
    /\ last.filters = <<[id |-> 1], [id |-> 1]>>
    /\ Len(objects) = 2
    /\ NoMatchLeft(objects, last.filters)
    /\ removeBatch(objects, refs, last.filters, 1).objects = objects

(***************************************************************************)
(* C14 as claimed: in every state reached by construction and any sequence *)
(* of add, update, remove, removeBatch and clear, failed calls included,   *)
(* every record carries every attribute of the schema and has an embedding *)
(* that is a non-empty array of numbers, none of them NaN.                 *)
(***************************************************************************)
C14_Original ==
    \A i \in 1..Len(objects) :
        /\ \A key \in keys : key \in DOMAIN objects[i]
        /\ "embedding" \in DOMAIN objects[i]
        /\ objects[i].embedding.isArray
        /\ Len(objects[i].embedding.items) >= 1
        /\ \A j \in 1..Len(objects[i].embedding.items) :
              objects[i].embedding.items[j].t = "number"

(***************************************************************************)
(* C15: once the schema is established no add, update, remove, removeBatch *)
(* or clear changes it; clear() leaves a store of size 0 and the schema as *)
(* it was, and an add after clear() of a record that lacks an attribute of *)
(* the schema fails and stores nothing.                                    *)
(***************************************************************************)
C15_SchemaFixed ==
    [][/\ keys # {} => keys' = keys
       /\ last'.op = "clear" => size(objects') = 0 /\ keys' = keys
       /\ (/\ last.op = "clear"
           /\ last'.op = "add"
           /\ \E key \in keys : key \notin DOMAIN last'.obj)
            => last'.err /\ objects' = objects]_vars

\* The store was emptied with the schema {embedding, id} in place: a record
\* with a valid embedding and no id is refused.
C15_Witness ==
    /\ last.op = "add"
    /\ last.err
    /\ last.obj = [embedding |-> E01]
    /\ keys = {"embedding", "id"}
    /\ size(objects) = 0

(***************************************************************************)
(* C16: a local search leaves the store, the schema and the cache as they  *)
(* were; a storage-backed search that hits leaves the store, the schema    *)
(* and the cache as they were; a storage-backed search that misses, when   *)
(* it starts its preload and when it ends, leaves the store and the schema *)
(* as they were.                                                           *)
(***************************************************************************)
C16_SearchFrame ==
    [][/\ (last'.op = "search" /\ last'.useStorage = "none")
            => UNCHANGED <<storeVars, cacheVars>>
       /\ (last'.op = "search" /\ last'.useStorage = "indexedDB"
                /\ last'.outcome = "hit")
            => UNCHANGED <<storeVars, cacheVars>>
       /\ (\/ last'.op = "searchStart"
           \/ last'.op = "search" /\ last'.useStorage = "indexedDB"
                /\ last'.outcome # "hit")
            => UNCHANGED storeVars]_vars

\* A search that missed has ended: the cache holds the snapshot it fetched
\* and the store still holds its three records.
C16_Witness ==
    /\ StoredSearchDone
    /\ last.outcome = "success"
    /\ indexedDBDataCache = Database(last.DBname, last.objectStoreName)
    /\ preloadedDBName = Some(last.DBname)
    /\ log[1].ev = "search"
    /\ log[1].fetch = 1
    /\ Len(objects) = 3

(***************************************************************************)
(* C17: when the last two cache events are the completions of two preload  *)
(* calls, so that the second to complete was started before the first      *)
(* completed, the cache reflects only the call that completed last: its    *)
(* snapshot tagged with its database and object store when it succeeded,   *)
(* nothing when it failed; nothing of the other call is left.              *)
(***************************************************************************)
C17_LastCompletedWins ==
    (log[1].ev = "preloaded" /\ log[2].ev = "preloaded")
        => IF log[2].ok
           THEN /\ indexedDBDataCache
                      = Database(log[2].DBname, log[2].objectStoreName)
                /\ preloadedDBName = Some(log[2].DBname)
                /\ preloadedObjectStoreName = Some(log[2].objectStoreName)
           ELSE /\ indexedDBDataCache = null
                /\ preloadedDBName = null
                /\ preloadedObjectStoreName = null

\* Both calls succeeded, for different object stores with different
\* records: the cache holds the records of the one that completed last.
C17_Witness ==
    /\ log[1].ev = "preloaded"
    /\ log[1].ok
    /\ log[2].ev = "preloaded"
    /\ log[2].ok
    /\ <<log[1].DBname, log[1].objectStoreName>> = <<"db1", "t2">>
    /\ <<log[2].DBname, log[2].objectStoreName>> = <<"db1", "t1">>
    /\ last.op = "preload"
    /\ indexedDBDataCache = Database("db1", "t1")
    /\ indexedDBDataCache # Database("db1", "t2")
    /\ preloadedObjectStoreName = Some("t1")

\* The calls that change the record store or save it; the steps of a save
\* are its start, the end of IndexedDbManager.create and the end of the
\* write.
StoreCalls ==
    {"add", "update", "remove", "removeBatch", "clear", "saveStart", "save"}

SaveCreated ==
    \/ last.op = "created" /\ last.kind = "save"
    \/ last.op = "saveRead"

(***************************************************************************)
(* C18: add, update, remove, removeBatch, clear and saving leave the       *)
(* snapshot and its tag unchanged; and a storage-backed search called      *)
(* right after one of them, for the database and object store the          *)
(* snapshot is tagged with, performs no fetch, leaves the cache as it is   *)
(* and answers from that snapshot.                                         *)
(***************************************************************************)
C18_StoreAndCacheIndependent ==
    [][/\ (last'.op \in StoreCalls \/ SaveCreated') => UNCHANGED cacheVars
       /\ (/\ last.op \in StoreCalls
           /\ \/ last'.op = "searchStart"
              \/ /\ last'.op = "search"
                 /\ last'.useStorage = "indexedDB"
                 /\ last'.outcome = "hit"
           /\ indexedDBDataCache # null
           /\ preloadedDBName = Some(last'.DBname)
           /\ preloadedObjectStoreName = Some(last'.objectStoreName))
            => /\ last'.op = "search"
               /\ log'[2].ev = "search"
               /\ log'[2].fetch = 0
               /\ last'.scanned = indexedDBDataCache
               /\ last'.res = searchStored(indexedDBDataCache[1],
                                           last'.queryEmbedding,
                                           last'.topK[1], last'.filter[1])
               /\ UNCHANGED cacheVars]_vars

\* The snapshot was taken while the object store existed and was empty;
\* the record store was then updated and saved.  The search fetches
\* nothing and answers from the empty snapshot, not from the record saved.
C18_Witness ==
    /\ StoredSearchDone
    /\ last.outcome = "hit"
    /\ log[2].ev = "search"
    /\ log[2].fetch = 0
    /\ last.scanned = Some(<<>>)
    /\ last.res = <<>>
    /\ objects = <<[id |-> 2, embedding |-> E10]>>
    /\ Database(last.DBname, last.objectStoreName) = Some(objects)

(***************************************************************************)
(* C19 as claimed: a successful update(filter, patch), also one whose      *)
(* patch contains an embedding, leaves the size of the store as it was,    *)
(* adds and removes no record, and leaves every record other than the      *)
(* first match unchanged.                                                  *)
(***************************************************************************)
C19_Original ==
    [][(last'.op = "update" /\ ~last'.err)
        => /\ size(objects') = size(objects)
           /\ \A i \in 1..Len(objects) :
                 i # FirstMatch(objects, last'.filter) => objects'[i] = objects[i]]_vars

(***************************************************************************)
(* C20: whatever preload, invalidate and storage-backed search calls for   *)
(* other databases or object stores it is interleaved with, a              *)
(* storage-backed search scans the records fetched for the database and    *)
(* object store it names, or nothing: each of its results is a record of   *)
(* that object store, and without a snapshot it returns the empty list.    *)
(* (No call of this specification writes to an object store, so the        *)
(* records fetched for an object store are the ones it holds.)             *)
(***************************************************************************)
C20_SearchScansOwnSnapshot ==
    StoredSearchDone
        => LET own == Database(last.DBname, last.objectStoreName)
           IN  /\ last.scanned \in {null, own}
               /\ last.scanned = null => last.res = <<>>
               /\ \A j \in 1..Len(last.res) :
                     /\ last.res[j].pos \in 1..Len(own[1])
                     /\ last.res[j].object = own[1][last.res[j].pos]

\* A preload of db1/t1 completed while the search of db1/t2 was suspended
\* on its fetch; the search returns records of db1/t2.
C20_Witness ==
    /\ StoredSearchDone
    /\ <<last.DBname, last.objectStoreName>> = <<"db1", "t2">>
    /\ last.outcome = "success"
    /\ log[1].ev = "preloaded"
    /\ log[1].ok
    /\ <<log[1].DBname, log[1].objectStoreName>> = <<"db1", "t1">>
    /\ log[2].ev = "searched"
    /\ last.scanned = Database("db1", "t2")
    /\ last.scanned # Database("db1", "t1")
    /\ Len(last.res) = 2

====
